---- MODULE Spec2Model ----
(***************************************************************************)
(* Ticket classification workflow: customer-info extraction, validation of *)
(* the model's structured output, the per-ticket persistence transaction   *)
(* and the two orchestrators (single-ticket main and batch main).          *)
(*                                                                         *)
(* Texts are sequences of one-character strings.  Floating point scores    *)
(* are counted in tenths (0.0 = 0, 1.0 = 10).                               *)
(***************************************************************************)
EXTENDS Integers, Sequences, FiniteSets, TLC

VARIABLES
    text,          \* extractor harness: the ticket text given to extract_customer_info
    info,          \* extractor harness: the record returned, or NoInfo before the call
    entry,         \* which entry point runs: "single" (src/main.py) or "batch" (script)
    pc,            \* position of the orchestrator
    env,           \* the process environment: variable name -> "absent" | "empty" | "set" | "nonnumeric"
    pool,          \* "none" (pool = None) | "open" | "closed"
    conn,          \* "none" | "held": the connection acquired from the pool
    agent,         \* TRUE once create_ticket_agent has returned
    batch,         \* the list of ticket texts the entry point processes
    i,             \* 1-based index of the ticket being processed
    customer_info, \* result of extract_customer_info for ticket i
    result,        \* validated ProcessedTicket of ticket i
    customers,     \* committed rows of table customers
    tickets,       \* committed rows of table tickets
    txCustomers,   \* customers as seen inside the open transaction
    txTickets,     \* tickets as seen inside the open transaction
    custSeq,       \* last value of the customers id sequence
    tickSeq,       \* last value of the tickets id sequence
    schemaReady,   \* the database has the tables and enum types
    customer_id,   \* value returned by the upsert of ticket i
    ticket_id,     \* value returned by the ticket insert of ticket i
    ticket_ids,    \* ids returned by the processing calls that completed
    error,         \* "none", or the step whose exception is propagating / was re-raised
    clock,         \* database time: number of transactions begun
    hist,          \* observation record: what the run has done so far
    calls          \* concurrent processing calls: their state and the order of their commits

vars == <<text, info, entry, pc, env, pool, conn, agent, batch, i, customer_info,
          result, customers, tickets, txCustomers, txTickets, custSeq, tickSeq,
          schemaReady, customer_id, ticket_id, ticket_ids, error, clock, hist, calls>>

extractVars == <<text, info>>
flowVars == <<entry, pc, env, pool, conn, agent, batch, i, customer_info,
              result, customers, tickets, txCustomers, txTickets, custSeq, tickSeq,
              schemaReady, customer_id, ticket_id, ticket_ids, error, clock, hist>>

(***************************************************************************)
(* Bounds of the model.                                                    *)
(***************************************************************************)
MaxEmailLen == 6      \* longest text over EmailChars given to the extractor
MaxNameTokens == 5    \* longest text, in tokens of NameTokens, given to the extractor
MaxTickets == 3       \* longest ticket list processed by the batch entry point

(***************************************************************************)
(* Characters and Python string primitives.                                *)
(***************************************************************************)
UpperLetters == {"A", "E", "M", "N", "X"}
LowerLetters == {"a", "c", "e", "k", "l", "m", "n", "o", "p", "r", "s", "t", "u", "w", "x"}
Letters == UpperLetters \cup LowerLetters
Digits == {"0", "1", "2", "3", "4", "5", "6", "7", "8", "9"}
Whitespace == {" ", "\t", "\r", "\n"}

\* \w of Python's re for ASCII text
WordChars == Letters \cup Digits \cup {"_"}

\* str.lower() on one character
LowerChar(c) ==
    CASE c = "A" -> "a"
      [] c = "E" -> "e"
      [] c = "M" -> "m"
      [] c = "N" -> "n"
      [] c = "X" -> "x"
      [] OTHER -> c

\* str.lower()
Lower(s) == [k \in 1..Len(s) |-> LowerChar(s[k])]

\* pat in s
Contains(s, pat) ==
    \E k \in 1..(Len(s) - Len(pat) + 1) : SubSeq(s, k, k + Len(pat) - 1) = pat

\* positions of separator sep in s
SepPositions(s, sep) == {k \in 1..Len(s) : s[k] = sep}

\* s.split(sep)[n], for 0 <= n < number of parts
SplitPart(s, sep, n) ==
    LET P == SepPositions(s, sep)
        \* the n-th separator position (1-based); 0 before the first, Len+1 after the last
        Nth(m) == IF m = 0 THEN 0
                  ELSE IF m > Cardinality(P) THEN Len(s) + 1
                  ELSE CHOOSE p \in P : Cardinality({q \in P : q <= p}) = m
    IN  SubSeq(s, Nth(n) + 1, Nth(n + 1) - 1)

\* len(s.split(sep))
SplitCount(s, sep) == Cardinality(SepPositions(s, sep)) + 1

\* s.strip()
Strip(s) ==
    LET Keep == {k \in 1..Len(s) : s[k] \notin Whitespace}
    IN  IF Keep = {} THEN <<>>
        ELSE SubSeq(s, CHOOSE a \in Keep : \A b \in Keep : a <= b,
                       CHOOSE a \in Keep : \A b \in Keep : a >= b)

(***************************************************************************)
(* The email pattern of extract_customer_info:                             *)
(*   \b[A-Za-z0-9._%+-]+@[A-Za-z0-9.-]+\.[A-Z|a-z]{2,}\b                    *)
(***************************************************************************)
LocalClass == Letters \cup Digits \cup {".", "_", "%", "+", "-"}
DomainClass == Letters \cup Digits \cup {".", "-"}
TldClassLettersOnly == Letters
TldClass == Letters \cup {"|"}
TldMin == 2

\* \b at the gap after position p (0 = before the first character)
WordBoundary(s, p) ==
    (p >= 1 /\ s[p] \in WordChars) # (p < Len(s) /\ s[p + 1] \in WordChars)

AllIn(s, a, b, class) == \A k \in a..b : s[k] \in class

\* The ends of the matches of the pattern that start at position a, as
\* pairs <<last position of the domain part, last position of the match>>.
\* tld is the character class of the last part.
MatchEnds(s, a, tld) ==
    IF ~WordBoundary(s, a - 1) THEN {}
    ELSE LET Ats == {at \in (a + 1)..Len(s) :
                        s[at] = "@" /\ AllIn(s, a, at - 1, LocalClass)}
             DomainEnds(at) == {d \in (at + 1)..(Len(s) - 1) :
                                   s[d + 1] = "." /\ AllIn(s, at + 1, d, DomainClass)}
             TldEnds(d) == {e \in (d + 1 + TldMin)..Len(s) :
                               AllIn(s, d + 2, e, tld) /\ WordBoundary(s, e)}
         IN  UNION {UNION {{<<d, e>> : e \in TldEnds(d)} : d \in DomainEnds(at)} : at \in Ats}

\* The match the backtracking matcher reports at start a: the quantifiers
\* are greedy, so the longest domain part is tried first and, for it, the
\* longest last part.
GreedyMatch(s, a, tld) ==
    LET E == MatchEnds(s, a, tld)
        best == CHOOSE x \in E :
                    \A y \in E : \/ y[1] < x[1]
                                 \/ (y[1] = x[1] /\ y[2] <= x[2])
    IN  SubSeq(s, a, best[2])

\* re.findall(pattern, s): the leftmost match is matches[0]; <<>> stands
\* for an empty list of matches
FirstMatch(s, tld) ==
    LET Starts == {a \in 1..Len(s) : MatchEnds(s, a, tld) # {}}
    IN  IF Starts = {} THEN <<>>
        ELSE GreedyMatch(s, CHOOSE a \in Starts : \A b \in Starts : a <= b, tld)

FirstMatchLettersOnly(s) == FirstMatch(s, TldClassLettersOnly)

email_pattern(s) == FirstMatch(s, TldClass)

UNKNOWN_EMAIL == <<"u","n","k","n","o","w","n","@","e","x","a","m","p","l","e",".","c","o","m">>
UNKNOWN_NAME == <<"U","n","k","n","o","w","n"," ","C","u","s","t","o","m","e","r">>
NameLabel == <<"n", "a", "m", "e", ":">>

\* ticket_content.split('\n'), as the sequence of lines
Lines(s) == [n \in 1..SplitCount(s, "\n") |-> SplitPart(s, "\n", n - 1)]

\* variant: line.split(':', 1), the whole rest of the line
ExtractNameWholeRest(s) ==
    LET L == Lines(s)
        Hit == {n \in 1..Len(L) : Contains(Lower(L[n]), NameLabel)}
    IN  IF Hit = {} THEN <<>>
        ELSE LET line == L[CHOOSE n \in Hit : \A m \in Hit : n <= m]
                 first == CHOOSE p \in SepPositions(line, ":") :
                              \A q \in SepPositions(line, ":") : p <= q
             IN  Strip(SubSeq(line, first + 1, Len(line)))

\* name = parts[1].strip() of the first line that holds "name:"; <<>> when
\* the loop ends with name = None, and also when the stripped part is ''
ExtractName(s) ==
    LET L == Lines(s)
        Hit == {n \in 1..Len(L) : Contains(Lower(L[n]), NameLabel)}
    IN  IF Hit = {} THEN <<>>
        ELSE LET line == L[CHOOSE n \in Hit : \A m \in Hit : n <= m]
             IN  IF SplitCount(line, ":") > 1
                 THEN Strip(SplitPart(line, ":", 1))
                 ELSE <<>>

\* email or 'unknown@example.com', name or 'Unknown Customer'
extract_customer_info(s) ==
    LET email == email_pattern(s)
        name == ExtractName(s)
    IN  [email |-> IF email # <<>> THEN email ELSE UNKNOWN_EMAIL,
         name |-> IF name # <<>> THEN name ELSE UNKNOWN_NAME]

(***************************************************************************)
(* Observation record of a run.                                            *)
(***************************************************************************)
NoHist ==
    [closes |-> 0,            \* calls of close_pool
     opsAfterClose |-> 0,     \* pool / database operations issued on a closed pool
     statements |-> 0,        \* upsert and insert statements issued
     uninitialised |-> 0,     \* of these, issued before init_database completed in this run
     modelCalls |-> 0,        \* agent.run calls
     schemaInit |-> FALSE,    \* init_database completed in this run
     opened |-> FALSE,        \* create_pool returned a pool
     preCustomers |-> {},     \* customers when the current processing call began
     preTickets |-> {},       \* tickets when the current processing call began
     callStatements |-> 0,    \* statements issued by the current processing call
     answered |-> FALSE,      \* the last agent.run call got an answer from the model
     answer |-> <<>>,         \* that answer
     failedAt |-> 0]          \* index of the ticket whose processing raised

(***************************************************************************)
(* Extractor harness: extract_customer_info applied to a bounded set of    *)
(* texts.                                                                  *)
(***************************************************************************)
NoInfo == [email |-> <<>>, name |-> <<>>]
\* no concurrent calls
NoCalls == [proc |-> <<>>, order |-> <<>>]

EmailChars == {"a", ".", "@", "|", " "}
NameTokens == {<<"n", "a", "m", "e">>, <<"N", "A", "M", "E">>, <<":">>, <<" ">>, <<"x">>, <<"\n">>}

RECURSIVE Concat(_)
Concat(ss) == IF ss = <<>> THEN <<>> ELSE Head(ss) \o Concat(Tail(ss))

SeqsUpTo(S, n) == UNION {[1..k -> S] : k \in 0..n}

EmailTexts == SeqsUpTo(EmailChars, MaxEmailLen)
NameTexts == {Concat(ts) : ts \in SeqsUpTo(NameTokens, MaxNameTokens)}

\* "name:x\nx@x.xx"
TicketX == <<"n","a","m","e",":","x","\n","x","@","x",".","x","x">>
\* "Name: a\nx@x.xx": the same address under another name
TicketXRenamed == <<"N","a","m","e",":"," ","a","\n","x","@","x",".","x","x">>
\* "name:a\na@a.aa a@x.xx": two addresses
TicketA == <<"n","a","m","e",":","a","\n","a","@","a",".","a","a"," ","a","@","x",".","x","x">>
\* "x": neither an address nor a name line
TicketAnonymous == <<"x">>
SampleTickets == {TicketX, TicketXRenamed, TicketA, TicketAnonymous}

FlowIdle ==
    /\ entry = "single" /\ pc = "idle" /\ env = <<>> /\ pool = "none" /\ conn = "none"
    /\ agent = FALSE /\ batch = <<>> /\ i = 0 /\ customer_info = NoInfo
    /\ result = <<>> /\ customers = {} /\ tickets = {} /\ txCustomers = {}
    /\ txTickets = {} /\ custSeq = 0 /\ tickSeq = 0 /\ schemaReady = FALSE
    /\ customer_id = 0 /\ ticket_id = 0 /\ ticket_ids = <<>> /\ error = "none" /\ clock = 0
    /\ hist = NoHist
    /\ calls = NoCalls

InitExtract ==
    /\ text \in EmailTexts \cup NameTexts \cup SampleTickets
    /\ info = NoInfo
    /\ FlowIdle

Extract ==
    /\ pc = "idle"
    /\ info = NoInfo
    /\ info' = extract_customer_info(text)
    /\ UNCHANGED <<text, calls>>
    /\ UNCHANGED flowVars

NextExtract == Extract

SpecExtract == InitExtract /\ [][NextExtract]_vars

(***************************************************************************)
(* Reference notions used to state the extractor's properties.             *)
(***************************************************************************)
\* the lines of s that hold the label "name:" in any letter case
NameLines(s) == {n \in 1..Len(Lines(s)) : Contains(Lower(Lines(s)[n]), NameLabel)}
FirstNameLine(s) == Lines(s)[CHOOSE n \in NameLines(s) : \A m \in NameLines(s) : n <= m]
FirstColon(line) == CHOOSE p \in 1..Len(line) : line[p] = ":" /\ \A q \in 1..(p - 1) : line[q] # ":"
\* the first colon after position p, or the position after the end of the line
NextColon(line, p) ==
    CHOOSE q \in (p + 1)..(Len(line) + 1) :
        /\ q <= Len(line) => line[q] = ":"
        /\ \A r \in (p + 1)..(q - 1) : line[r] # ":"
Trimmed(s) == s = <<>> \/ (s[1] \notin Whitespace /\ s[Len(s)] \notin Whitespace)
\* t is s without the whitespace at its ends
IsTrimOf(t, s) ==
    /\ Trimmed(t)
    /\ \E a \in 0..Len(s) : \E b \in a..Len(s) :
          /\ t = SubSeq(s, a + 1, b)
          /\ \A k \in (1..a) \cup ((b + 1)..Len(s)) : s[k] \in Whitespace

\* a well-formed address: the pattern with a last part of letters only
WellFormedAt(s, a, b) == \E de \in MatchEnds(s, a, TldClassLettersOnly) : de[2] = b
HasWellFormedEmail(s) == \E a \in 1..Len(s) : \E b \in a..Len(s) : WellFormedAt(s, a, b)

Extracted == pc = "idle" /\ info # NoInfo

\* C9 (as stated): with a "name:" line the name is the text after the first
\* colon of the first such line, trimmed; without one it is the default name.
NameIsTextAfterFirstColon ==
    Extracted =>
        IF NameLines(text) = {} THEN info.name = UNKNOWN_NAME
        ELSE LET line == FirstNameLine(text)
             IN  IsTrimOf(info.name, SubSeq(line, FirstColon(line) + 1, Len(line)))

\* C9 (amended): with a "name:" line the name is the text between the first
\* colon of the first such line and the next colon (or the end of the line),
\* trimmed, unless that is empty; it is the default name when it is empty or
\* when no line holds "name:".
NameIsTextBetweenFirstTwoColons ==
    Extracted =>
        IF NameLines(text) = {} THEN info.name = UNKNOWN_NAME
        ELSE LET line == FirstNameLine(text)
                 p == FirstColon(line)
                 part == SubSeq(line, p + 1, NextColon(line, p) - 1)
             IN  IF \A k \in 1..Len(part) : part[k] \in Whitespace
                 THEN info.name = UNKNOWN_NAME
                 ELSE IsTrimOf(info.name, part)

\* a name line with a second colon and a non-empty name has been extracted
NameWitness ==
    /\ Extracted
    /\ NameLines(text) # {}
    /\ Cardinality(SepPositions(FirstNameLine(text), ":")) >= 2
    /\ info.name # UNKNOWN_NAME

\* C10: a text with a well-formed address yields exactly the first such
\* address; a text without one yields the sentinel address.
EmailIsFirstWellFormedAddress ==
    Extracted =>
        IF HasWellFormedEmail(text)
        THEN info.email = FirstMatchLettersOnly(text)
        ELSE info.email = UNKNOWN_EMAIL

(***************************************************************************)
(* Configuration: Settings.from_env.                                       *)
(***************************************************************************)
required_vars == {"GEMINI_API_KEY", "DB_HOST", "DB_PORT", "DB_NAME", "DB_USER", "DB_PASSWORD"}

\* variant: os.getenv(var) is None
missing_vars_absent_only(e) == {v \in required_vars : e[v] = "absent"}

\* [var for var in required_vars if not os.getenv(var)]
missing_vars(e) == {v \in required_vars : e[v] \in {"absent", "empty"}}

\* Settings.from_env raises: a required variable is missing, or int(DB_PORT) fails
from_env_raises(e) == missing_vars(e) # {} \/ e["DB_PORT"] = "nonnumeric"

AllSet == [v \in required_vars |-> "set"]
\* environments: complete, one variable absent / empty, a port that is no
\* number, and nothing set at all
Environments ==
    {AllSet, [v \in required_vars |-> "absent"], [AllSet EXCEPT !["DB_PORT"] = "nonnumeric"]}
    \cup {[AllSet EXCEPT ![v] = x] : v \in required_vars, x \in {"absent", "empty"}}

(***************************************************************************)
(* Output schema: models/schemas.py and utils/enums.py.                    *)
(***************************************************************************)
Category == {"billing", "technical", "feature_request", "general"}
Priority == {"low", "medium", "high", "critical"}
SentimentMin == 0     \* ge=0.0, in tenths
SentimentMax == 10    \* le=1.0, in tenths
ProcessedTicketFields == {"summary", "category", "priority", "sentiment_score"}

\* variant: sentiment_score without ge / le
ValidateNoRange(r) ==
    /\ r.fields = ProcessedTicketFields
    /\ r.category \in Category
    /\ r.priority \in Priority

\* a response validates as a ProcessedTicket
Validate(r) ==
    /\ r.fields = ProcessedTicketFields
    /\ r.category \in Category
    /\ r.priority \in Priority
    /\ r.sentiment_score >= SentimentMin
    /\ r.sentiment_score <= SentimentMax

Response(f, c, p, s) == [fields |-> f, category |-> c, priority |-> p, sentiment_score |-> s]
\* what the remote model may answer: two answers that fit the schema, and
\* one answer for each way of not fitting it
ModelResponses ==
    {Response(ProcessedTicketFields, "billing", "critical", 0),
     Response(ProcessedTicketFields, "general", "low", 10),
     Response(ProcessedTicketFields, "refund", "critical", 5),
     Response(ProcessedTicketFields, "billing", "urgent", 5),
     Response(ProcessedTicketFields, "billing", "critical", 0 - 1),
     Response(ProcessedTicketFields, "billing", "critical", 11),
     Response(ProcessedTicketFields \ {"summary"}, "billing", "critical", 5)}

(***************************************************************************)
(* The database: schema of section 6 of the specification.                 *)
(***************************************************************************)
category_enum == {"billing", "technical", "feature_request", "general"}
priority_enum == {"low", "medium", "high", "critical"}

CustomerRow(id, email, name, at) == [id |-> id, email |-> email, name |-> name, created_at |-> at]
TicketRow(id, cid, raw, r, at) ==
    [id |-> id, customer_id |-> cid, raw_content |-> raw, category |-> r.category,
     priority |-> r.priority, sentiment_score |-> r.sentiment_score, created_at |-> at]

\* variant: the row of a known email is deleted and inserted anew
UpsertReplaces(rows, id, email, name, at) ==
    {c \in rows : c.email # email} \cup {CustomerRow(id, email, name, at)}

\* variant: ON CONFLICT (email) DO NOTHING
UpsertKeepsName(rows, id, email, name, at) ==
    IF \E c \in rows : c.email = email THEN rows
    ELSE rows \cup {CustomerRow(id, email, name, at)}

\* INSERT INTO customers (email, name) VALUES ($1, $2)
\* ON CONFLICT (email) DO UPDATE SET name = EXCLUDED.name
UpsertCustomer(rows, id, email, name, at) ==
    IF \E c \in rows : c.email = email
    THEN {IF c.email = email THEN [c EXCEPT !.name = name] ELSE c : c \in rows}
    ELSE rows \cup {CustomerRow(id, email, name, at)}

\* variant: the id of the oldest row instead of the row written
UpsertReturningOldest(rows, email) == (CHOOSE c \in rows : \A d \in rows : c.id <= d.id).id

\* RETURNING id
UpsertReturning(rows, email) == (CHOOSE c \in rows : c.email = email).id

\* the ticket insert is accepted: the enum casts and the foreign key hold
TicketAccepted(rows, cid, r) ==
    /\ r.category \in category_enum
    /\ r.priority \in priority_enum
    /\ \E c \in rows : c.id = cid

OldName == <<"o">>
\* the database before the run: without schema, with an empty schema, or
\* with the rows an earlier run committed for TicketX under another name
Databases ==
    {[ready |-> FALSE, customers |-> {}, tickets |-> {}, seq |-> 0],
     [ready |-> TRUE, customers |-> {}, tickets |-> {}, seq |-> 0],
     [ready |-> TRUE,
      customers |-> {CustomerRow(1, extract_customer_info(TicketX).email, OldName, 0)},
      tickets |-> {TicketRow(1, 1, TicketX, Response(ProcessedTicketFields, "general", "low", 10), 0)},
      seq |-> 1]}

TicketLists == UNION {[1..n -> SampleTickets] : n \in 1..MaxTickets}

Init ==
    /\ text = <<>>
    /\ calls = NoCalls
    /\ info = NoInfo
    /\ entry \in {"single", "batch"}
    /\ pc = "load_config"
    /\ env \in Environments
    /\ pool = "none"
    /\ conn = "none"
    /\ agent = FALSE
    /\ batch \in IF entry = "single" THEN {<<t>> : t \in SampleTickets} ELSE TicketLists
    /\ i = 0
    /\ customer_info = NoInfo
    /\ result = <<>>
    /\ \E db \in Databases :
          /\ schemaReady = db.ready
          /\ customers = db.customers
          /\ tickets = db.tickets
          /\ custSeq = db.seq
          /\ tickSeq = db.seq
          /\ clock = db.seq
          /\ hist = [NoHist EXCEPT !.preCustomers = db.customers, !.preTickets = db.tickets]
    /\ txCustomers = {}
    /\ txTickets = {}
    /\ customer_id = 0
    /\ ticket_id = 0
    /\ ticket_ids = <<>>
    /\ error = "none"

(***************************************************************************)
(* Control flow shared by the two entry points.                            *)
(***************************************************************************)
\* variant: no entry point initialises the schema
StepAfterPoolSkipsSchema(e) == "create_agent"

\* main.py initialises the schema after opening the pool; the batch script
\* goes on to create the agent
StepAfterPool(e) == IF e = "single" THEN "init_database" ELSE "create_agent"

\* variant: the batch loop catches the exception of a ticket and goes on
OnExceptionSkipTicket(step, e, k, n) ==
    IF e = "batch" /\ k >= 1 /\ k < n
    THEN [pc |-> "extract", error |-> "none", i |-> k + 1]
    ELSE [pc |-> "finally", error |-> step, i |-> k]

\* an exception raised in the try block: it leaves the block (and the
\* ticket loop), is printed and re-raised by the except clause, and the
\* finally clause runs
OnException(step, e, k, n) == [pc |-> "finally", error |-> step, i |-> k]

\* variant: close_pool at the end of the try block
PoolAfterCleanupOnSuccessOnly(p, err) == IF p # "none" /\ err = "none" THEN "closed" ELSE p

\* finally: if pool is not None: await close_pool(pool)
PoolAfterCleanup(p, err) == IF p # "none" THEN "closed" ELSE p

\* variant: statements outside a transaction (autocommit)
RollbackKeepsWork(committed, working) == working

\* leaving "async with conn.transaction()" by an exception: the table is
\* what it was before the transaction began
Rollback(committed, working) == committed

\* variant: ticket_ids.insert(0, ticket_id)
ReportPrepended(ids, id) == <<id>> \o ids

\* ticket_ids.append(ticket_id)
Report(ids, id) == Append(ids, id)

Goto(p) == pc' = p /\ UNCHANGED <<error, i>>

Raise(step) ==
    LET c == OnException(step, entry, i, Len(batch))
    IN  pc' = c.pc /\ error' = c.error /\ i' = c.i

\* a pool or connection operation on a closed pool is counted
Used(h) == [h EXCEPT !.opsAfterClose = IF pool = "closed" THEN @ + 1 ELSE @]
\* a statement on customers or tickets
Stated(h) ==
    [Used(h) EXCEPT !.statements = @ + 1,
                    !.callStatements = @ + 1,
                    !.uninitialised = IF h.schemaInit THEN @ ELSE @ + 1]
Failed(h) == [h EXCEPT !.failedAt = i]
\* an agent.run call and what the model answered
Called(h, answered, r) ==
    [h EXCEPT !.modelCalls = @ + 1, !.answered = answered,
              !.answer = IF answered THEN r ELSE <<>>]

\* the exception leaves both "async with" blocks: rollback, release
Abort(step) ==
    /\ customers' = Rollback(customers, txCustomers)
    /\ tickets' = Rollback(tickets, txTickets)
    /\ txCustomers' = {}
    /\ txTickets' = {}
    /\ conn' = "none"
    /\ Raise(step)

\* settings = Settings.from_env()
LoadConfig ==
    /\ pc = "load_config"
    /\ IF from_env_raises(env) THEN Raise("load_config") ELSE Goto("create_pool")
    /\ UNCHANGED <<calls, text, info, entry, env, pool, conn, agent, batch, customer_info, result,
                   customers, tickets, txCustomers, txTickets, custSeq, tickSeq,
                   schemaReady, customer_id, ticket_id, ticket_ids, clock, hist>>

\* pool = await create_pool(settings.database_dsn)
CreatePool ==
    /\ pc = "create_pool"
    /\ \E ok \in BOOLEAN :
          IF ok
          THEN /\ pool' = "open"
               /\ hist' = [hist EXCEPT !.opened = TRUE]
               /\ Goto(StepAfterPool(entry))
          ELSE /\ Raise("create_pool")
               /\ UNCHANGED <<pool, hist>>
    /\ UNCHANGED <<calls, text, info, entry, env, conn, agent, batch, customer_info, result,
                   customers, tickets, txCustomers, txTickets, custSeq, tickSeq,
                   schemaReady, customer_id, ticket_id, ticket_ids, clock>>

\* await init_database(pool)
InitDatabase ==
    /\ pc = "init_database"
    /\ \E ok \in BOOLEAN :
          IF ok
          THEN /\ schemaReady' = TRUE
               /\ hist' = [Used(hist) EXCEPT !.schemaInit = TRUE]
               /\ Goto("create_agent")
          ELSE /\ Raise("init_database")
               /\ hist' = Used(hist)
               /\ UNCHANGED schemaReady
    /\ UNCHANGED <<calls, text, info, entry, env, pool, conn, agent, batch, customer_info, result,
                   customers, tickets, txCustomers, txTickets, custSeq, tickSeq,
                   customer_id, ticket_id, ticket_ids, clock>>

\* agent = create_ticket_agent(settings.gemini_api_key); the ticket loop
\* (one ticket in main.py) starts at the first ticket
CreateAgent ==
    /\ pc = "create_agent"
    /\ \E ok \in BOOLEAN :
          IF ok
          THEN /\ agent' = TRUE
               /\ pc' = "extract"
               /\ i' = 1
               /\ UNCHANGED error
          ELSE /\ Raise("create_agent")
               /\ UNCHANGED agent
    /\ UNCHANGED <<calls, text, info, entry, env, pool, conn, batch, customer_info, result,
                   customers, tickets, txCustomers, txTickets, custSeq, tickSeq,
                   schemaReady, customer_id, ticket_id, ticket_ids, clock, hist>>

\* customer_info = extract_customer_info(content)
ExtractInfo ==
    /\ pc = "extract"
    /\ customer_info' = extract_customer_info(batch[i])
    /\ hist' = [hist EXCEPT !.preCustomers = customers, !.preTickets = tickets,
                            !.callStatements = 0]
    /\ Goto("classify")
    /\ UNCHANGED <<calls, text, info, entry, env, pool, conn, agent, batch, result,
                   customers, tickets, txCustomers, txTickets, custSeq, tickSeq,
                   schemaReady, customer_id, ticket_id, ticket_ids, clock>>

\* result = await agent.run(...): the call fails, or the answer is
\* validated against ProcessedTicket
Classify ==
    /\ pc = "classify"
    /\ \E answered \in BOOLEAN : \E r \in ModelResponses :
          IF answered /\ Validate(r)
          THEN /\ result' = r
               /\ hist' = Called(hist, answered, r)
               /\ Goto("acquire")
          ELSE /\ Raise("classify")
               /\ hist' = Failed(Called(hist, answered, r))
               /\ UNCHANGED result
    /\ UNCHANGED <<calls, text, info, entry, env, pool, conn, agent, batch, customer_info,
                   customers, tickets, txCustomers, txTickets, custSeq, tickSeq,
                   schemaReady, customer_id, ticket_id, ticket_ids, clock>>

\* async with pool.acquire() as conn: async with conn.transaction():
Acquire ==
    /\ pc = "acquire"
    /\ \E ok \in BOOLEAN :
          IF ok
          THEN /\ conn' = "held"
               /\ txCustomers' = customers
               /\ txTickets' = tickets
               /\ clock' = clock + 1
               /\ hist' = Used(hist)
               /\ Goto("upsert")
          ELSE /\ Raise("acquire")
               /\ hist' = Failed(Used(hist))
               /\ UNCHANGED <<conn, txCustomers, txTickets, clock>>
    /\ UNCHANGED <<calls, text, info, entry, env, pool, agent, batch, customer_info, result,
                   customers, tickets, custSeq, tickSeq,
                   schemaReady, customer_id, ticket_id, ticket_ids>>

\* customer_id = await conn.fetchval(INSERT INTO customers ... ON CONFLICT ...)
Upsert ==
    /\ pc = "upsert"
    /\ \E ok \in BOOLEAN :
          IF ok /\ schemaReady
          THEN /\ txCustomers' = UpsertCustomer(txCustomers, custSeq + 1, customer_info.email,
                                                customer_info.name, clock)
               /\ customer_id' = UpsertReturning(txCustomers', customer_info.email)
               /\ custSeq' = custSeq + 1
               /\ hist' = Stated(hist)
               /\ Goto("insert")
               /\ UNCHANGED <<customers, tickets, txTickets, conn>>
          ELSE /\ Abort("upsert")
               /\ hist' = Failed(Stated(hist))
               /\ UNCHANGED <<customer_id, custSeq>>
    /\ UNCHANGED <<calls, text, info, entry, env, pool, agent, batch, customer_info, result,
                   tickSeq, schemaReady, ticket_id, ticket_ids, clock>>

\* ticket_id = await conn.fetchval(INSERT INTO tickets ...)
InsertTicket ==
    /\ pc = "insert"
    /\ \E ok \in BOOLEAN :
          IF ok /\ TicketAccepted(txCustomers, customer_id, result)
          THEN /\ txTickets' = txTickets \cup
                      {TicketRow(tickSeq + 1, customer_id, batch[i], result, clock)}
               /\ ticket_id' = tickSeq + 1
               /\ tickSeq' = tickSeq + 1
               /\ hist' = Stated(hist)
               /\ Goto("commit")
               /\ UNCHANGED <<customers, tickets, txCustomers, conn>>
          ELSE /\ Abort("insert")
               /\ hist' = Failed(Stated(hist))
               /\ UNCHANGED <<ticket_id, tickSeq>>
    /\ UNCHANGED <<calls, text, info, entry, env, pool, agent, batch, customer_info, result,
                   custSeq, schemaReady, customer_id, ticket_ids, clock>>

\* leaving both "async with" blocks normally: commit, release; then the
\* next ticket of the batch, or the end of the try block
Commit ==
    /\ pc = "commit"
    /\ \E ok \in BOOLEAN :
          IF ok
          THEN /\ customers' = txCustomers
               /\ tickets' = txTickets
               /\ txCustomers' = {}
               /\ txTickets' = {}
               /\ conn' = "none"
               /\ ticket_ids' = IF entry = "batch" THEN Report(ticket_ids, ticket_id)
                                ELSE ticket_ids
               /\ IF entry = "batch" /\ i < Len(batch)
                  THEN pc' = "extract" /\ i' = i + 1
                  ELSE pc' = "finally" /\ i' = i
               /\ UNCHANGED error
               /\ hist' = Used(hist)
          ELSE /\ Abort("commit")
               /\ hist' = Failed(Used(hist))
               /\ UNCHANGED ticket_ids
    /\ UNCHANGED <<calls, text, info, entry, env, pool, agent, batch, customer_info, result,
                   custSeq, tickSeq, schemaReady, customer_id, ticket_id, clock>>

\* the finally clause; the exception, if any, leaves main()
Cleanup ==
    /\ pc = "finally"
    /\ pool' = PoolAfterCleanup(pool, error)
    /\ hist' = [hist EXCEPT !.closes = IF pool' # pool THEN @ + 1 ELSE @]
    /\ pc' = "done"
    /\ UNCHANGED <<calls, text, info, entry, env, conn, agent, batch, i, customer_info, result,
                   customers, tickets, txCustomers, txTickets, custSeq, tickSeq,
                   schemaReady, customer_id, ticket_id, ticket_ids, error, clock>>

Next ==
    \/ LoadConfig
    \/ CreatePool
    \/ InitDatabase
    \/ CreateAgent
    \/ ExtractInfo
    \/ Classify
    \/ Acquire
    \/ Upsert
    \/ InsertTicket
    \/ Commit
    \/ Cleanup

Spec == Init /\ [][Next]_vars

(***************************************************************************)
(* Properties of the workflow.                                             *)
(***************************************************************************)
Ended == pc \in {"finally", "done"}
Emails(rows) == {c.email : c \in rows}
\* the processing call of ticket i raised inside the persistence step
PersistenceFailed == Ended /\ error \in {"acquire", "upsert", "insert", "commit"}
\* the processing call of ticket i has committed and no later call has begun
JustCommitted ==
    /\ error = "none"
    /\ hist.failedAt = 0
    /\ \/ pc = "extract" /\ i > 1
       \/ Ended /\ hist.callStatements = 2

\* C1: the customer upsert and the ticket insert of a processing call are
\* committed together or not at all: the committed tables are those of the
\* beginning of the call, or hold the call's ticket row and its customer
\* row; and after a call that failed in the persistence step they are
\* those of the beginning of the call.
AtomicPersistence ==
    /\ \/ customers = hist.preCustomers /\ tickets = hist.preTickets
       \/ /\ error = "none"
          /\ \E t \in tickets \ hist.preTickets : \E c \in customers :
                /\ c.id = t.customer_id
                /\ c.email = customer_info.email
                /\ c.name = customer_info.name
                /\ tickets = hist.preTickets \cup {t}
          /\ \A c \in customers \ hist.preCustomers : c.email = customer_info.email
    /\ PersistenceFailed => customers = hist.preCustomers /\ tickets = hist.preTickets

\* the ticket insert failed after the upsert of a previously unseen email
AtomicWitness ==
    /\ pc = "done"
    /\ error = "insert"
    /\ hist.callStatements = 2
    /\ customer_info.email \notin Emails(hist.preCustomers)
    /\ customers = hist.preCustomers

\* C2: at most one customer row per email; an upsert of an email that was
\* present when the call began returns the id of that row; after a commit
\* the row of the call's email carries the call's name.
CustomerUniqueness ==
    /\ \A c1, c2 \in customers : c1.email = c2.email => c1 = c2
    /\ \A c1, c2 \in txCustomers : c1.email = c2.email => c1 = c2
    /\ \A c1, c2 \in customers : c1.id = c2.id => c1 = c2
    /\ pc \in {"insert", "commit"} =>
          /\ \A c \in hist.preCustomers : c.email = customer_info.email => customer_id = c.id
          /\ \E c \in txCustomers : c.id = customer_id /\ c.email = customer_info.email
    /\ JustCommitted =>
          /\ \E c \in customers : /\ c.email = customer_info.email
                                  /\ c.name = customer_info.name
                                  /\ c.id = customer_id
          /\ \A c \in hist.preCustomers : c.email = customer_info.email => customer_id = c.id

\* a call committed for an email that was present under another name
UpsertRenameWitness ==
    /\ pc = "done"
    /\ JustCommitted
    /\ \E c \in hist.preCustomers : c.email = customer_info.email /\ c.name # customer_info.name

\* C3: on every path on which the pool was opened it is closed exactly once
\* before the run ends, and nothing is issued on the closed pool.
PoolReleased ==
    /\ pc = "done" /\ hist.opened => pool = "closed" /\ hist.closes = 1
    /\ hist.opened <=> pool # "none"
    /\ hist.closes <= 1
    /\ hist.opsAfterClose = 0
    /\ pool = "closed" => pc = "done" /\ conn = "none"

\* a batch run that failed while persisting has ended with the pool closed
PoolReleasedWitness ==
    /\ pc = "done"
    /\ entry = "batch"
    /\ error = "commit"
    /\ pool = "closed"

ValidRow(t) ==
    /\ t.category \in {"billing", "technical", "feature_request", "general"}
    /\ t.priority \in {"low", "medium", "high", "critical"}
    /\ t.sentiment_score >= 0
    /\ t.sentiment_score <= 10

\* C4: after a failed remote call, or an answer that does not fit the
\* output schema, the processing call has failed without issuing the upsert
\* or the insert, and the tables are unchanged; every ticket row written
\* carries a category and a priority of the enumerations and a score in
\* [0.0, 1.0].
RejectedNeverPersisted ==
    /\ \A t \in tickets \cup txTickets : ValidRow(t)
    /\ hist.modelCalls > 0 /\ (~hist.answered \/ ~ValidRow(hist.answer)
                                 \/ hist.answer.fields # ProcessedTicketFields) =>
          /\ Ended
          /\ error = "classify"
          /\ hist.callStatements = 0
          /\ customers = hist.preCustomers
          /\ tickets = hist.preTickets
    /\ pc \in {"acquire", "upsert", "insert", "commit"} => ValidRow(result)

\* an answer with a score above 1.0 was rejected after an earlier ticket
\* had been persisted
RejectedWitness ==
    /\ pc = "done"
    /\ error = "classify"
    /\ hist.answered
    /\ hist.answer.sentiment_score > 10
    /\ tickets # {}

MissingOrEmpty == \E v \in required_vars : env[v] \in {"absent", "empty"}

\* C5: with a required setting absent or empty the run fails in
\* load_config: no pool is created, no agent, no model call, no database
\* statement, and no pool close is attempted.
ConfigurationFailsFirst ==
    MissingOrEmpty =>
        /\ pc \in {"load_config", "finally", "done"}
        /\ pc # "load_config" => error = "load_config"
        /\ pool = "none"
        /\ ~hist.opened
        /\ ~agent
        /\ hist.modelCalls = 0
        /\ hist.statements = 0
        /\ ~hist.schemaInit
        /\ hist.closes = 0

\* a run with an empty variable has ended in failure
ConfigurationWitness ==
    /\ pc = "done"
    /\ error = "load_config"
    /\ \E v \in required_vars : env[v] = "empty"
    /\ \A v \in required_vars : env[v] # "absent"

\* C6: in the batch path tickets are processed one after another and the
\* first failing ticket k ends the run in failure: no later ticket is
\* classified or persisted, the tickets before k stay committed, ticket k
\* leaves no row, and the pool is closed.
BatchAbortsOnFirstFailure ==
    /\ entry = "batch" =>
          /\ hist.modelCalls \in {i - 1, i} \/ i = 0
          /\ Len(ticket_ids) \in {i - 1, i} \/ i = 0
    /\ entry = "batch" /\ hist.failedAt > 0 =>
          /\ Ended
          /\ i = hist.failedAt
          /\ error \in {"classify", "acquire", "upsert", "insert", "commit"}
          /\ hist.modelCalls = i
          /\ Len(ticket_ids) = i - 1
          /\ \A k \in 1..(i - 1) : \E t \in tickets :
                /\ t.id = ticket_ids[k]
                /\ t.raw_content = batch[k]
                /\ \E c \in customers : c.id = t.customer_id
          /\ customers = hist.preCustomers
          /\ tickets = hist.preTickets
          /\ pc = "done" => pool = "closed"

\* the second of three tickets failed in the ticket insert
BatchAbortWitness ==
    /\ entry = "batch"
    /\ pc = "done"
    /\ Len(batch) = 3
    /\ hist.failedAt = 2
    /\ error = "insert"
    /\ Len(ticket_ids) = 1

\* C7 (as stated): in both entry points schema initialisation has completed
\* before the ticket loop and before the first upsert or insert is issued.
SchemaInitialisedBeforeWrites ==
    /\ hist.uninitialised = 0
    /\ pc \in {"extract", "classify", "acquire", "upsert", "insert", "commit"} => hist.schemaInit

\* C7 (amended): both entry points have loaded the configuration, opened
\* the pool and created the agent before the ticket loop; in the
\* single-ticket entry point schema initialisation has completed before the
\* first upsert or insert is issued; the batch entry point never
\* initialises the schema.
SchemaInitialisedInSingleOnly ==
    /\ pc \in {"extract", "classify", "acquire", "upsert", "insert", "commit"} =>
          /\ ~from_env_raises(env)
          /\ pool = "open"
          /\ agent
    /\ hist.statements > 0 => hist.opened /\ agent
    /\ entry = "single" =>
          /\ hist.uninitialised = 0
          /\ hist.statements > 0 => hist.schemaInit /\ schemaReady
    /\ entry = "batch" => ~hist.schemaInit

\* the single-ticket run issued both statements on a database that had no
\* schema before the run
SchemaWitness ==
    /\ entry = "single"
    /\ pc = "commit"
    /\ hist.schemaInit
    /\ hist.statements = 2
    /\ clock = 1

BatchEmails == [k \in 1..Len(batch) |-> extract_customer_info(batch[k]).email]
DistinctEmails == \A j, k \in 1..Len(batch) : j # k => BatchEmails[j] # BatchEmails[k]
BatchSucceeded == entry = "batch" /\ pc = "done" /\ error = "none"

\* C8: a batch of n tickets with pairwise distinct emails, every step
\* succeeding, commits n customer rows with n distinct ids and n ticket rows
\* with n distinct ids, and the k-th reported ticket id is the id of the row
\* of the k-th ticket.
BatchResult ==
    BatchSucceeded /\ DistinctEmails =>
        LET n == Len(batch)
            Mine == {t \in tickets : \E k \in 1..n : t.id = ticket_ids[k]}
            Owners == {c \in customers : c.email \in {BatchEmails[k] : k \in 1..n}}
        IN  /\ Len(ticket_ids) = n
            /\ \A j, k \in 1..n : j # k => ticket_ids[j] # ticket_ids[k]
            /\ Cardinality(Mine) = n
            /\ Cardinality(Owners) = n
            /\ Cardinality({c.id : c \in Owners}) = n
            /\ \A k \in 1..n : \E t \in tickets : \E c \in customers :
                  /\ t.id = ticket_ids[k]
                  /\ t.raw_content = batch[k]
                  /\ c.id = t.customer_id
                  /\ c.email = BatchEmails[k]

\* three tickets with three emails have been processed
BatchResultWitness ==
    /\ BatchSucceeded
    /\ DistinctEmails
    /\ Len(batch) = 3
    /\ Len(ticket_ids) = 3

\* the customer of the text of ticket row t is among rows under t.customer_id
RefersToOwner(t, rows) ==
    \E c \in rows : /\ c.id = t.customer_id
                    /\ c.email = extract_customer_info(t.raw_content).email

\* C11: every committed ticket row refers to an existing customer row, the
\* one of the email extracted from the ticket's text, whose id the upsert
\* of the same transaction returned.
ReferentialIntegrity ==
    /\ \A t \in tickets : RefersToOwner(t, customers)
    /\ \A t \in txTickets : RefersToOwner(t, txCustomers)
    /\ pc = "commit" =>
          \E t \in txTickets \ tickets :
              /\ t.id = ticket_id
              /\ t.customer_id = customer_id
              /\ t.raw_content = batch[i]
              /\ txTickets = tickets \cup {t}
    /\ JustCommitted =>
          \E t \in tickets : t.id = ticket_id /\ t.customer_id = customer_id

\* a run has committed tickets of two customers, one of them a customer
\* that existed before the run
ReferentialWitness ==
    /\ pc = "done"
    /\ error = "none"
    /\ \E t1, t2 \in tickets :
          /\ t1.customer_id # t2.customer_id
          /\ t1.id = ticket_id
          /\ t1.customer_id = customer_id
          /\ \E c \in hist.preCustomers : c.id = customer_id /\ c.created_at = 0

\* C12: a step of the run deletes no row and changes no ticket row; it
\* leaves the customer rows of other emails as they are and changes at most
\* the name of the row of the call's email, keeping id, email and
\* created_at; the tables change only at the commit of the per-ticket
\* transaction, which adds one ticket row.
FrameOfPersistence ==
    [][/\ \A t \in tickets : t \in tickets'
       /\ \A c \in customers : \E d \in customers' :
             /\ d.id = c.id
             /\ d.email = c.email
             /\ d.created_at = c.created_at
             /\ c.email # customer_info.email => d = c
       /\ Cardinality(customers') >= Cardinality(customers)
       /\ customers' # customers \/ tickets' # tickets =>
             /\ pc = "commit"
             /\ conn = "held"
             /\ Cardinality(tickets') = Cardinality(tickets) + 1
             /\ Cardinality(customers') <= Cardinality(customers) + 1
             /\ \A c \in customers' \ customers : c.email = customer_info.email
       /\ pc # "commit" => customers' = customers /\ tickets' = tickets]_vars

\* a call has committed a new name for a known email while a customer of
\* another email and an earlier ticket were in the tables
FrameWitness ==
    /\ pc = "done"
    /\ JustCommitted
    /\ \E c \in hist.preCustomers : \E d \in customers :
          /\ c.email = customer_info.email
          /\ c.name # customer_info.name
          /\ d.id = c.id
          /\ d.created_at = c.created_at
          /\ d.name = customer_info.name
          /\ d.created_at < clock
    /\ \E o \in hist.preCustomers : o.email # customer_info.email /\ o \in customers
    /\ hist.preTickets # {}
    /\ hist.preTickets \subseteq tickets

(***************************************************************************)
(* Concurrent processing calls: the persistence step of process_ticket /   *)
(* save_ticket run by two callers at once, each on a connection of its own *)
(* and in a transaction of its own (READ COMMITTED, the default of         *)
(* conn.transaction()).                                                    *)
(***************************************************************************)
Callers == {1, 2}
max_size == 10
\* the classification the callers persist
ClassifiedAs == Response(ProcessedTicketFields, "billing", "critical", 0)

CallState(t) ==
    [pc |-> "acquire",                     \* acquire, upsert, insert, commit, done, failed
     ticket |-> t,                         \* content
     info |-> extract_customer_info(t),    \* customer_info
     conn |-> 0,                           \* the pooled connection held, 0 for none
     began |-> 0,                          \* database time at which the transaction began
     customer_id |-> 0,
     ticket_id |-> 0,
     rows |-> {},                          \* customer row versions written, not yet committed
     trows |-> {}]                         \* ticket rows written, not yet committed

concurrentFrame == <<text, info, entry, pc, env, pool, conn, agent, batch, i, customer_info,
                     result, txCustomers, txTickets, schemaReady, customer_id, ticket_id,
                     ticket_ids, error, hist>>

InitConcurrent ==
    /\ text = <<>> /\ info = NoInfo /\ entry = "batch" /\ pc = "calls" /\ env = AllSet
    /\ pool = "open" /\ conn = "none" /\ agent = TRUE /\ batch = <<>> /\ i = 0
    /\ customer_info = NoInfo /\ result = <<>> /\ txCustomers = {} /\ txTickets = {}
    /\ schemaReady = TRUE /\ customer_id = 0 /\ ticket_id = 0 /\ ticket_ids = <<>>
    /\ error = "none" /\ hist = NoHist
    /\ \E db \in {d \in Databases : d.ready} :
          /\ customers = db.customers
          /\ tickets = db.tickets
          /\ custSeq = db.seq
          /\ tickSeq = db.seq
          /\ clock = db.seq
    /\ \E ts \in [Callers -> SampleTickets] :
          calls = [proc |-> [p \in Callers |-> CallState(ts[p])], order |-> <<>>]

\* connections of the pool that no caller holds
FreeConnections(procs) == {c \in 1..max_size : \A q \in Callers : procs[q].conn # c}

\* variant: SELECT, then INSERT or UPDATE: no wait on the unique index
UpsertNeverWaits(procs, p, email) == FALSE

\* INSERT ... ON CONFLICT (email): the statement waits while an open
\* transaction of another connection has written the row of that email
UpsertWaits(procs, p, email) ==
    \E q \in Callers \ {p} : procs[q].pc \in {"insert", "commit"} /\ procs[q].info.email = email

\* the customers table as caller st sees it: committed rows and its own writes
Visible(st) == {c \in customers : \A d \in st.rows : d.id # c.id} \cup st.rows

\* the exception leaves both "async with" blocks: rollback, release
CallAborted(st) == [st EXCEPT !.pc = "failed", !.conn = 0, !.rows = {}, !.trows = {}]

\* async with pool.acquire() as conn: async with conn.transaction():
CallAcquire(p) ==
    LET st == calls.proc[p]
    IN  /\ pc = "calls"
        /\ st.pc = "acquire"
        /\ \E ok \in BOOLEAN :
              IF ok /\ FreeConnections(calls.proc) # {}
              THEN /\ calls' = [calls EXCEPT !.proc[p] =
                          [st EXCEPT !.pc = "upsert",
                                     !.conn = CHOOSE c \in FreeConnections(calls.proc) :
                                                  \A d \in FreeConnections(calls.proc) : c <= d,
                                     !.began = clock + 1]]
                   /\ clock' = clock + 1
              ELSE /\ calls' = [calls EXCEPT !.proc[p] = CallAborted(st)]
                   /\ UNCHANGED clock
        /\ UNCHANGED <<customers, tickets, custSeq, tickSeq>>
        /\ UNCHANGED concurrentFrame

\* customer_id = await conn.fetchval(INSERT INTO customers ... ON CONFLICT ...)
CallUpsert(p) ==
    LET st == calls.proc[p]
        after == UpsertCustomer(customers, custSeq + 1, st.info.email, st.info.name, st.began)
    IN  /\ pc = "calls"
        /\ st.pc = "upsert"
        /\ \E ok \in BOOLEAN :
              IF ok
              THEN /\ ~UpsertWaits(calls.proc, p, st.info.email)
                   /\ calls' = [calls EXCEPT !.proc[p] =
                          [st EXCEPT !.pc = "insert",
                                     !.rows = {c \in after : c.email = st.info.email},
                                     !.customer_id = UpsertReturning(after, st.info.email)]]
                   /\ custSeq' = custSeq + 1
              ELSE /\ calls' = [calls EXCEPT !.proc[p] = CallAborted(st)]
                   /\ UNCHANGED custSeq
        /\ UNCHANGED <<customers, tickets, tickSeq, clock>>
        /\ UNCHANGED concurrentFrame

\* ticket_id = await conn.fetchval(INSERT INTO tickets ...)
CallInsert(p) ==
    LET st == calls.proc[p]
    IN  /\ pc = "calls"
        /\ st.pc = "insert"
        /\ \E ok \in BOOLEAN :
              IF ok /\ TicketAccepted(Visible(st), st.customer_id, ClassifiedAs)
              THEN /\ calls' = [calls EXCEPT !.proc[p] =
                          [st EXCEPT !.pc = "commit",
                                     !.ticket_id = tickSeq + 1,
                                     !.trows = {TicketRow(tickSeq + 1, st.customer_id, st.ticket,
                                                          ClassifiedAs, st.began)}]]
                   /\ tickSeq' = tickSeq + 1
              ELSE /\ calls' = [calls EXCEPT !.proc[p] = CallAborted(st)]
                   /\ UNCHANGED tickSeq
        /\ UNCHANGED <<customers, tickets, custSeq, clock>>
        /\ UNCHANGED concurrentFrame

\* leaving both "async with" blocks normally: commit, release
CallCommit(p) ==
    LET st == calls.proc[p]
    IN  /\ pc = "calls"
        /\ st.pc = "commit"
        /\ \E ok \in BOOLEAN :
              IF ok
              THEN /\ customers' = Visible(st)
                   /\ tickets' = tickets \cup st.trows
                   /\ calls' = [proc |-> [calls.proc EXCEPT ![p] =
                                    [st EXCEPT !.pc = "done", !.conn = 0,
                                               !.rows = {}, !.trows = {}]],
                                order |-> Append(calls.order, p)]
              ELSE /\ calls' = [calls EXCEPT !.proc[p] = CallAborted(st)]
                   /\ UNCHANGED <<customers, tickets>>
        /\ UNCHANGED <<custSeq, tickSeq, clock>>
        /\ UNCHANGED concurrentFrame

NextConcurrent ==
    \E p \in Callers :
        \/ CallAcquire(p)
        \/ CallUpsert(p)
        \/ CallInsert(p)
        \/ CallCommit(p)

SpecConcurrent == InitConcurrent /\ [][NextConcurrent]_vars

Concurrent == pc = "calls"
BothCommitted == Concurrent /\ \A p \in Callers : calls.proc[p].pc = "done"
SameEmail == \A p, q \in Callers : calls.proc[p].info.email = calls.proc[q].info.email
LastCommitter == calls.order[Len(calls.order)]

\* C13: two concurrent calls for one email end, in every interleaving in
\* which both commit, with one customer row for that email, the same
\* customer id in both calls, both ticket rows referring to it, and the name
\* of the call that committed last; callers in a transaction hold distinct
\* connections, and no email ever has two rows.
LastWriterWins ==
    Concurrent =>
        /\ \A c1, c2 \in customers : c1.email = c2.email => c1 = c2
        /\ \A p, q \in Callers :
              p # q /\ calls.proc[p].conn # 0 => calls.proc[p].conn # calls.proc[q].conn
        /\ \A p \in Callers : calls.proc[p].pc \in {"upsert", "insert", "commit"} <=>
                                  calls.proc[p].conn # 0
        /\ BothCommitted /\ SameEmail =>
              \E c \in customers :
                  /\ \A d \in customers : d.email = c.email => d = c
                  /\ \A p \in Callers :
                        /\ c.email = calls.proc[p].info.email
                        /\ calls.proc[p].customer_id = c.id
                        /\ \E t \in tickets : /\ t.id = calls.proc[p].ticket_id
                                              /\ t.customer_id = c.id
                                              /\ t.raw_content = calls.proc[p].ticket
                  /\ calls.proc[1].ticket_id # calls.proc[2].ticket_id
                  /\ Len(calls.order) = 2
                  /\ c.name = calls.proc[LastCommitter].info.name

\* both calls committed for a previously unseen email under different
\* names, the second caller first
LastWriterWitness ==
    /\ BothCommitted
    /\ SameEmail
    /\ calls.proc[1].info.name # calls.proc[2].info.name
    /\ calls.order = <<2, 1>>
    /\ Cardinality(customers) = 1
    /\ \E c \in customers : c.name = calls.proc[1].info.name /\ c.created_at = calls.proc[2].began

====
